---- MODULE Spec2Model ----
\* A model of the azurerm_app_service_hybrid_connection resource:
\* the CreateUpdate, Read and Delete callbacks of
\* azurerm/internal/services/web/resource_arm_app_service_hybrid_connection.go,
\* run against a remote store of hybrid-connection bindings whose calls can fail.
\*
\* Strings that the code parses (ARM resource IDs) are sequences of their
\* "/"-separated segments, so that parsing and formatting are computed.
EXTENDS Integers, Sequences, FiniteSets, TLC

VARIABLES d, remote, importEnabled, last

vars == <<d, remote, importEnabled, last>>

\* ---------------------------------------------------------------- bounds

\* How many hostnames the declared configurations draw from.
NumHosts == 2

AllHosts == <<"h1", "h2", "h3", "h4">>

Hostnames == {AllHosts[i] : i \in 1..NumHosts}
RelayNames == {"hc1", "hc2"}
Ports == {443}
Sites == {"site1"}
ResourceGroups == {"rg1"}
RelayNamespaces == {"ns1"}
ServiceBusNamespaces == {"ns1"}
SendKeyNames == {"key1"}
SendKeyValues == {"secret1"}
PrimaryKeys == {"pk1"}
SubscriptionId == "sub1"
DefaultSuffix == ".servicebus.windows.net"

\* The empty string as a resource ID (d.Id() of a resource without identifier).
EmptyId == <<>>

\* ------------------------------------------------------ resource IDs

\* The relay reference /subscriptions/S/resourceGroups/G/providers/Microsoft.Relay/
\* namespaces/N/hybridConnections/H.
RelayArmURI(rg, ns, hc) ==
    <<"subscriptions", SubscriptionId, "resourceGroups", rg,
      "providers", "Microsoft.Relay", "namespaces", ns, "hybridConnections", hc>>

\* A reference to a relay namespace, with no hybrid connection in it.
NamespaceOnlyURI(rg, ns) ==
    <<"subscriptions", SubscriptionId, "resourceGroups", rg,
      "providers", "Microsoft.Relay", "namespaces", ns>>

\* The ID the site-hosting service gives the binding of a key <<rg, site, ns, relay>>.
HybridConnectionID(key) ==
    <<"subscriptions", SubscriptionId, "resourceGroups", key[1],
      "providers", "Microsoft.Web", "sites", key[2],
      "hybridConnectionNamespaces", key[3], "relays", key[4]>>

OddIndexes(c) == {i \in 1..Len(c) : i % 2 = 1}

MinOf(S) == CHOOSE x \in S : \A y \in S : x <= y
MaxOf(S) == CHOOSE x \in S : \A y \in S : x >= y

NoResourceID ==
    [ok |-> FALSE, SubscriptionID |-> "", ResourceGroup |-> "", Provider |-> "",
     Path |-> <<>>]

\* id.Path[k] of a Go map: the empty string for a key the map lacks.
PathGet(path, k) == IF k \in DOMAIN path THEN path[k] ELSE ""

PathRemove(path, ks) == [k \in (DOMAIN path) \ ks |-> path[k]]

\* azure.ParseAzureResourceID: the segments are key/value pairs; the first
\* "subscriptions" pair gives the subscription, every other pair goes to the
\* component map (a later pair of the same key overwrites an earlier one);
\* resourceGroups (or resourcegroups) and providers are then moved out of the map.
ParseAzureResourceID(c) ==
    IF c = EmptyId \/ Len(c) % 2 # 0 THEN NoResourceID
    ELSE IF \E i \in OddIndexes(c) : c[i] = "" \/ c[i + 1] = "" THEN NoResourceID
    ELSE
      LET subs == {i \in OddIndexes(c) : c[i] = "subscriptions"}
          rest == OddIndexes(c) \ (IF subs = {} THEN {} ELSE {MinOf(subs)})
          componentMap ==
              [k \in {c[i] : i \in rest} |-> c[MaxOf({i \in rest : c[i] = k}) + 1]]
          rgKey == IF "resourceGroups" \in DOMAIN componentMap THEN "resourceGroups"
                   ELSE "resourcegroups"
      IN IF subs = {} THEN NoResourceID
         ELSE IF rgKey \notin DOMAIN componentMap THEN NoResourceID
         ELSE [ok |-> TRUE,
               SubscriptionID |-> c[MinOf(subs) + 1],
               ResourceGroup |-> componentMap[rgKey],
               Provider |-> PathGet(componentMap, "providers"),
               Path |-> PathRemove(componentMap, {rgKey, "providers"})]

NoRelayID == [ok |-> FALSE, ResourceGroup |-> "", NamespaceName |-> "", Name |-> ""]

\* relay.ParseHybridConnectionID: an ARM ID whose path holds exactly the
\* segments namespaces and hybridConnections.
ParseHybridConnectionID(c) ==
    LET id == ParseAzureResourceID(c)
    IN IF ~id.ok THEN NoRelayID
       ELSE IF "hybridConnections" \notin DOMAIN id.Path THEN NoRelayID
       ELSE IF "namespaces" \notin DOMAIN id.Path THEN NoRelayID
       ELSE IF DOMAIN id.Path # {"hybridConnections", "namespaces"} THEN NoRelayID
       ELSE [ok |-> TRUE, ResourceGroup |-> id.ResourceGroup,
             NamespaceName |-> id.Path["namespaces"],
             Name |-> id.Path["hybridConnections"]]

\* ------------------------------------------------- the remote services

\* web.HybridConnectionProperties as the upsert sends it.
NoProps ==
    [ServiceBusNamespace |-> "", RelayName |-> "", RelayArmURI |-> EmptyId,
     Hostname |-> "", Port |-> 0, SendKeyName |-> "", SendKeyValue |-> "",
     ServiceBusSuffix |-> ""]

Keys == ResourceGroups \X Sites \X RelayNamespaces \X RelayNames

Absent == [present |-> FALSE, props |-> NoProps]

Lookup(rem, key) == IF key \in DOMAIN rem THEN rem[key] ELSE Absent

\* A response of either service. A Go nil pointer is a FALSE has-flag; a call
\* that produced no HTTP response has StatusCode 0.
Response(err, status, hasID, id, hasProps, props, primaryKey) ==
    [err |-> err, StatusCode |-> status, hasID |-> hasID, ID |-> id,
     hasProps |-> hasProps, props |-> props, PrimaryKey |-> primaryKey]

GetFaults == {"none", "error", "noprops"}
UpsertFaults == {"none", "error", "noid"}
DeleteFaults == {"none", "error", "notfounderror"}

\* client.GetHybridConnection: an error with status 404 for an absent binding,
\* an error with status 500 when the call fails, else the binding, whose
\* properties block may be missing and whose send-key value is never returned.
GetHybridConnection(rem, key, fault) ==
    IF fault = "error" THEN Response(TRUE, 500, FALSE, EmptyId, FALSE, NoProps, "")
    ELSE IF ~Lookup(rem, key).present
         THEN Response(TRUE, 404, FALSE, EmptyId, FALSE, NoProps, "")
    ELSE IF fault = "noprops"
         THEN Response(FALSE, 200, TRUE, HybridConnectionID(key), FALSE, NoProps, "")
    ELSE Response(FALSE, 200, TRUE, HybridConnectionID(key), TRUE,
                  [Lookup(rem, key).props EXCEPT !.SendKeyValue = ""], "")

\* client.CreateOrUpdateHybridConnection: stores the envelope under the key and
\* answers with the binding's ID (which the response may lack), or fails and
\* stores nothing.
CreateOrUpdateHybridConnection(rem, key, envelope, fault) ==
    IF fault = "error" \/ key \notin DOMAIN rem
    THEN [resp |-> Response(TRUE, 500, FALSE, EmptyId, FALSE, NoProps, ""),
          remote |-> rem]
    ELSE [resp |-> Response(FALSE, 200, fault # "noid",
                            IF fault = "noid" THEN EmptyId ELSE HybridConnectionID(key),
                            TRUE, envelope, ""),
          remote |-> [rem EXCEPT ![key] = [present |-> TRUE, props |-> envelope]]]

\* client.DeleteHybridConnection: removes the binding. For an absent binding the
\* response has status 404, reported with a call error or without one.
DeleteHybridConnection(rem, key, fault) ==
    IF fault = "error"
    THEN [resp |-> Response(TRUE, 500, FALSE, EmptyId, FALSE, NoProps, ""),
          remote |-> rem]
    ELSE IF ~Lookup(rem, key).present
    THEN [resp |-> Response(fault = "notfounderror", 404, FALSE, EmptyId, FALSE,
                            NoProps, ""),
          remote |-> rem]
    ELSE [resp |-> Response(FALSE, 200, FALSE, EmptyId, FALSE, NoProps, ""),
          remote |-> [rem EXCEPT ![key] = Absent]]

KeysResponses ==
    {Response(TRUE, 500, FALSE, EmptyId, FALSE, NoProps, "")}
    \cup {Response(FALSE, 200, FALSE, EmptyId, FALSE, NoProps, k) : k \in PrimaryKeys}

\* utils.ResponseWasNotFound / response.WasNotFound: a response with status 404.
ResponseWasNotFound(resp) == resp.StatusCode = 404

\* One remote call as the handler issued it, with the response it got (less the
\* properties block, which is the remote store's).
Call(api, rg, name, ns, relay, keyName, resp) ==
    [api |-> api, resourceGroup |-> rg, name |-> name, namespaceName |-> ns,
     relayName |-> relay, keyName |-> keyName,
     err |-> resp.err, StatusCode |-> resp.StatusCode, hasID |-> resp.hasID,
     ID |-> resp.ID, hasProps |-> resp.hasProps, PrimaryKey |-> resp.PrimaryKey]

HybridConnectionCall(api, key, resp) ==
    Call(api, key[1], key[2], key[3], key[4], "", resp)

\* ------------------------------------------------------- resource data

\* schema.ResourceData of a resource that does not exist: no identifier, every
\* field at its zero value.
BlankData ==
    [id |-> EmptyId, app_service_name |-> "", resource_group_name |-> "",
     relay_id |-> EmptyId, hostname |-> "", port |-> 0,
     service_bus_namespace |-> "", service_bus_suffix |-> "",
     send_key_name |-> "", send_key_value |-> "",
     namespace_name |-> "", relay_name |-> ""]

\* The relay references a configuration may declare: a hybrid connection of a
\* namespace, or (not a hybrid connection) the namespace alone.
RelayRefs ==
    {RelayArmURI(rg, ns, hc) : rg \in ResourceGroups, ns \in RelayNamespaces,
                               hc \in RelayNames}
    \cup {NamespaceOnlyURI(rg, ns) : rg \in ResourceGroups, ns \in RelayNamespaces}

\* The declared fields of the schema; service_bus_suffix takes its default.
Configs ==
    [app_service_name : Sites, resource_group_name : ResourceGroups,
     relay_id : RelayRefs, hostname : Hostnames, port : Ports,
     service_bus_namespace : ServiceBusNamespaces,
     service_bus_suffix : {DefaultSuffix},
     send_key_name : SendKeyNames, send_key_value : SendKeyValues]

DeclaredFields == DOMAIN BlankData \ {"id", "namespace_name", "relay_name"}

\* d.Get during CreateUpdate: the declared value of every declared field, the
\* prior state for the identifier and the computed fields.
Planned(prior, cfg) ==
    [f \in DOMAIN BlankData |-> IF f \in DeclaredFields THEN cfg[f] ELSE prior[f]]

\* A faulty SetId: the identifier is taken from the declared relay reference.
SetIdToRelay(data, id) == [data EXCEPT !.id = data.relay_id]

\* d.SetId
SetId(data, id) == [data EXCEPT !.id = id]

\* What a handler did: the data it leaves, the remote store it leaves, the error
\* it returns ("nil" for none, "panic" when it did not return), the ID an
\* ImportAsExists error names, and the remote calls it issued, in order.
Outcome(data, rem, err, errId, calls) ==
    [d |-> data, remote |-> rem, err |-> err, errId |-> errId, calls |-> calls]

\* The IDs the resource meets: the relay references it may declare, the IDs the
\* site-hosting service gives, and the empty ID. Their parses are tabulated.
KnownIds == RelayRefs \cup {HybridConnectionID(k) : k \in Keys} \cup {EmptyId}

ResourceIDTable == [c \in KnownIds |-> ParseAzureResourceID(c)]

RelayIDTable == [c \in KnownIds |-> ParseHybridConnectionID(c)]

ParsedResourceID(c) ==
    IF c \in KnownIds THEN ResourceIDTable[c] ELSE ParseAzureResourceID(c)

ParsedRelayID(c) ==
    IF c \in KnownIds THEN RelayIDTable[c] ELSE ParseHybridConnectionID(c)

\* ------------------------------------------------------------------ Read

\* A faulty ReadGetFailed: not-found is an error like any other.
ReadGetFailedKeepsId(data, rem, resp, getCall) ==
    Outcome(data, rem, "ErrReadRequest", EmptyId, <<getCall>>)

\* Lines 171-177: the get failed. Not-found clears the identifier and is no
\* error; any other failure is returned.
ReadGetFailed(data, rem, resp, getCall) ==
    IF ResponseWasNotFound(resp)
    THEN Outcome(SetId(data, EmptyId), rem, "nil", EmptyId, <<getCall>>)
    ELSE Outcome(data, rem, "ErrReadRequest", EmptyId, <<getCall>>)

\* Lines 178-190: the fields set from the identifier's segments and, when the
\* response has a properties block, from the response.
ReadPopulate(data, key, resp) ==
    LET d1 == [data EXCEPT !.app_service_name = key[2],
                           !.resource_group_name = key[1],
                           !.namespace_name = key[3],
                           !.relay_name = key[4]]
    IN IF resp.hasProps
       THEN [d1 EXCEPT !.port = resp.props.Port,
                       !.service_bus_namespace = resp.props.ServiceBusNamespace,
                       !.send_key_name = resp.props.SendKeyName,
                       !.service_bus_suffix = resp.props.ServiceBusSuffix,
                       !.relay_id = resp.props.RelayArmURI,
                       !.hostname = resp.props.Hostname]
       ELSE d1

\* Lines 191-203: the credential-listing call, keyed by the response's service-bus
\* namespace and send-key name. resp.ServiceBusNamespace and resp.SendKeyName
\* are reached through the properties pointer: with no properties block the
\* dereference panics before the call is made.
ReadListKeys(data, rem, key, resp, getCall, keys) ==
    IF ~resp.hasProps
    THEN Outcome(data, rem, "panic", EmptyId, <<getCall>>)
    ELSE LET listCall == Call("ListKeys", key[1], "", resp.props.ServiceBusNamespace,
                              "", resp.props.SendKeyName, keys)
         IN IF keys.err
            THEN Outcome(data, rem, "nil", EmptyId, <<getCall, listCall>>)
            ELSE Outcome([data EXCEPT !.send_key_value = keys.PrimaryKey], rem, "nil",
                         EmptyId, <<getCall, listCall>>)

\* resourceArmAppServiceHybridConnectionRead
Read(data, rem, getFault, keys) ==
    LET id == ParsedResourceID(data.id)
        key == <<id.ResourceGroup, PathGet(id.Path, "sites"),
                 PathGet(id.Path, "hybridConnectionNamespaces"),
                 PathGet(id.Path, "relays")>>
        resp == GetHybridConnection(rem, key, getFault)
        getCall == HybridConnectionCall("Get", key, resp)
    IN IF ~id.ok THEN Outcome(data, rem, "MalformedIdentifier", EmptyId, <<>>)
       ELSE IF resp.err
       THEN ReadGetFailed(data, rem, resp, getCall)
       ELSE ReadListKeys(ReadPopulate(data, key, resp), rem, key, resp, getCall, keys)

\* ---------------------------------------------------------- CreateUpdate

\* A faulty HybridConnectionKey: namespace and relay name change places.
HybridConnectionKeySwapped(resourceGroup, name, relayId) ==
    <<resourceGroup, name, relayId.Name, relayId.NamespaceName>>

\* Lines 116-120, 147: the remote key of the binding, from the declared resource
\* group and site and the parsed relay reference.
HybridConnectionKey(resourceGroup, name, relayId) ==
    <<resourceGroup, name, relayId.NamespaceName, relayId.Name>>

\* A faulty ImportConflict: the comparison with the empty ID is inverted.
ImportConflictInverted(existing) == existing.hasID /\ existing.ID = EmptyId

\* Line 127: the pre-check found a binding.
ImportConflict(existing) == existing.hasID /\ existing.ID # EmptyId

\* A faulty ConnectionEnvelope: the hostname is read from service_bus_namespace.
ConnectionEnvelopeHostFromNamespace(data, relayName) ==
    [ServiceBusNamespace |-> data.service_bus_namespace,
     RelayName |-> relayName,
     RelayArmURI |-> data.relay_id,
     Hostname |-> data.service_bus_namespace,
     Port |-> data.port,
     SendKeyName |-> data.send_key_name,
     SendKeyValue |-> data.send_key_value,
     ServiceBusSuffix |-> data.service_bus_suffix]

\* Lines 132-145: the request payload. The port is narrowed to int32, which
\* keeps every declared port (0 to 65535).
ConnectionEnvelope(data, relayName) ==
    [ServiceBusNamespace |-> data.service_bus_namespace,
     RelayName |-> relayName,
     RelayArmURI |-> data.relay_id,
     Hostname |-> data.hostname,
     Port |-> data.port,
     SendKeyName |-> data.send_key_name,
     SendKeyValue |-> data.send_key_value,
     ServiceBusSuffix |-> data.service_bus_suffix]

\* resourceArmAppServiceHybridConnectionCreateUpdate. env holds the faults of
\* the calls it makes and the credential-listing response of its closing Read.
CreateUpdate(data, isNew, rem, imp, env) ==
    LET relayId == ParsedRelayID(data.relay_id)
        key == HybridConnectionKey(data.resource_group_name, data.app_service_name,
                                   relayId)
        check == imp /\ isNew
        existing == GetHybridConnection(rem, key, env.preGet)
        preCalls == IF check THEN <<HybridConnectionCall("Get", key, existing)>>
                    ELSE <<>>
        up == CreateOrUpdateHybridConnection(
                  rem, key, ConnectionEnvelope(data, relayId.Name), env.upsert)
        upCalls == preCalls \o <<HybridConnectionCall("CreateOrUpdate", key, up.resp)>>
        rd == Read(SetId(data, up.resp.ID), up.remote, env.readGet, env.keys)
    IN IF ~relayId.ok
       THEN Outcome(data, rem, "ErrParsingRelayID", EmptyId, <<>>)
       ELSE IF check /\ existing.err /\ ~ResponseWasNotFound(existing)
       THEN Outcome(data, rem, "ErrCheckingPresence", EmptyId, preCalls)
       ELSE IF check /\ ImportConflict(existing)
       THEN Outcome(data, rem, "ImportAsExists", existing.ID, preCalls)
       ELSE IF up.resp.err
       THEN Outcome(data, rem, "ErrCreating", EmptyId, upCalls)
       ELSE IF ~up.resp.hasID
       THEN Outcome(data, up.remote, "panic", EmptyId, upCalls)
       ELSE [rd EXCEPT !.calls = upCalls \o @]

\* ---------------------------------------------------------------- Delete

\* resourceArmAppServiceHybridConnectionDelete
Delete(data, rem, fault) ==
    LET id == ParsedResourceID(data.id)
        key == <<id.ResourceGroup, PathGet(id.Path, "sites"),
                 PathGet(id.Path, "hybridConnectionNamespaces"),
                 PathGet(id.Path, "relays")>>
        del == DeleteHybridConnection(rem, key, fault)
        calls == <<HybridConnectionCall("Delete", key, del.resp)>>
    IN IF ~id.ok THEN Outcome(data, rem, "MalformedIdentifier", EmptyId, <<>>)
       ELSE IF del.resp.err
       THEN IF ~ResponseWasNotFound(del.resp)
            THEN Outcome(data, del.remote, "nil", EmptyId, calls)
            ELSE Outcome(data, del.remote, "ErrDeleting", EmptyId, calls)
       ELSE Outcome(data, del.remote, "nil", EmptyId, calls)

\* ------------------------------------------------------------ the system

NoConfig == [f \in DeclaredFields |-> BlankData[f]]

\* The record of the last operation: which one, on a new resource or not, with
\* which declared configuration, and what it did.
Last(op, isNew, cfg, out) ==
    [op |-> op, isNew |-> isNew, cfg |-> cfg,
     err |-> out.err, errId |-> out.errId, calls |-> out.calls]

Envs == [preGet : GetFaults \ {"noprops"}, upsert : UpsertFaults, readGet : GetFaults,
         keys : KeysResponses]

\* A handler that panics takes the provider process down.
Running == last.err # "panic"

Init ==
    /\ d = BlankData
    /\ remote = [k \in Keys |-> Absent]
    /\ importEnabled \in BOOLEAN
    /\ last = [op |-> "none", isNew |-> FALSE, cfg |-> NoConfig,
               err |-> "nil", errId |-> EmptyId, calls |-> <<>>]

\* Create: CreateUpdate on a resource that has no identifier yet.
DoCreate ==
    /\ Running
    /\ d.id = EmptyId
    /\ \E cfg \in Configs :
         \E out \in {CreateUpdate(Planned(BlankData, cfg), TRUE, remote,
                                  importEnabled, env) : env \in Envs} :
            /\ d' = out.d
            /\ remote' = out.remote
            /\ last' = Last("Create", TRUE, cfg, out)
    /\ UNCHANGED importEnabled

\* Update: CreateUpdate on a resource that has an identifier. A change of a
\* ForceNew field (app_service_name, resource_group_name) never reaches Update.
DoUpdate ==
    /\ Running
    /\ d.id # EmptyId
    /\ \E cfg \in Configs :
         /\ cfg.app_service_name = d.app_service_name
         /\ cfg.resource_group_name = d.resource_group_name
         /\ \E out \in {CreateUpdate(Planned(d, cfg), FALSE, remote,
                                     importEnabled, env) : env \in Envs} :
               /\ d' = out.d
               /\ remote' = out.remote
               /\ last' = Last("Update", FALSE, cfg, out)
    /\ UNCHANGED importEnabled

\* Read (refresh) of a resource that has an identifier.
DoRead ==
    /\ Running
    /\ d.id # EmptyId
    /\ \E out \in {Read(d, remote, getFault, keys) :
                      getFault \in GetFaults, keys \in KeysResponses} :
            /\ d' = out.d
            /\ remote' = out.remote
            /\ last' = Last("Read", FALSE, NoConfig, out)
    /\ UNCHANGED importEnabled

\* Delete of a resource that has an identifier. The data of a resource whose
\* Delete returned no error is dropped.
DoDelete ==
    /\ Running
    /\ d.id # EmptyId
    /\ \E out \in {Delete(d, remote, fault) : fault \in DeleteFaults} :
            /\ d' = IF out.err = "nil" THEN BlankData ELSE out.d
            /\ remote' = out.remote
            /\ last' = Last("Delete", FALSE, NoConfig, out)
    /\ UNCHANGED importEnabled

\* Someone else creates a binding on the site-hosting service.
ExternalCreate ==
    /\ Running
    /\ \E key \in Keys, cfg \in Configs :
         /\ ~remote[key].present
         /\ ParsedRelayID(cfg.relay_id).ok
         /\ key = HybridConnectionKey(cfg.resource_group_name, cfg.app_service_name,
                                      ParsedRelayID(cfg.relay_id))
         /\ remote' = [remote EXCEPT ![key] =
                [present |-> TRUE,
                 props |-> ConnectionEnvelope(Planned(BlankData, cfg), key[4])]]
         /\ last' = Last("ExternalCreate", FALSE, NoConfig,
                         Outcome(d, remote', "nil", EmptyId, <<>>))
    /\ UNCHANGED <<d, importEnabled>>

\* Someone else deletes a binding on the site-hosting service.
ExternalDelete ==
    /\ Running
    /\ \E key \in Keys :
         /\ remote[key].present
         /\ remote' = [remote EXCEPT ![key] = Absent]
         /\ last' = Last("ExternalDelete", FALSE, NoConfig,
                         Outcome(d, remote', "nil", EmptyId, <<>>))
    /\ UNCHANGED <<d, importEnabled>>

Next ==
    \/ DoCreate
    \/ DoUpdate
    \/ DoRead
    \/ DoDelete
    \/ ExternalCreate
    \/ ExternalDelete

Spec == Init /\ [][Next]_vars

\* ---------------------------------------------------------- properties

IsCreateUpdate(l) == l.op \in {"Create", "Update"}

\* The primary get of a Read is its first call.
ReadGot(l) == l.op = "Read" /\ Len(l.calls) >= 1 /\ l.calls[1].api = "Get"

CallKey(c) == <<c.resourceGroup, c.name, c.namespaceName, c.relayName>>

UpsertCalls(l) == {i \in 1..Len(l.calls) : l.calls[i].api = "CreateOrUpdate"}

ListKeysCalls(l) == {i \in 1..Len(l.calls) : l.calls[i].api = "ListKeys"}

\* The key CreateUpdate is to use for a declared configuration.
DeclaredKey(cfg) ==
    <<cfg.resource_group_name, cfg.app_service_name,
      ParseHybridConnectionID(cfg.relay_id).NamespaceName,
      ParseHybridConnectionID(cfg.relay_id).Name>>

\* C1: a Read whose get fails with not-found clears the identifier, returns no
\* error, issues no credential-listing call (the get is its only call) and
\* writes no other field; the remote store is left alone.
C1_ReadNotFoundClearsId ==
    [][(ReadGot(last') /\ last'.calls[1].err /\ last'.calls[1].StatusCode = 404)
        => /\ d' = [d EXCEPT !.id = EmptyId]
           /\ last'.err = "nil"
           /\ ListKeysCalls(last') = {}
           /\ Len(last'.calls) = 1
           /\ remote' = remote]_vars

\* C1 happens: a Read found the binding gone and cleared the identifier of a
\* resource whose fields it left in place.
C1_Witness ==
    /\ ReadGot(last) /\ last.calls[1].err /\ last.calls[1].StatusCode = 404
    /\ ~Lookup(remote, CallKey(last.calls[1])).present
    /\ d.id = EmptyId /\ d.app_service_name # "" /\ last.err = "nil"

\* C2 as claimed: a Delete whose delete call reports not-found, with a call
\* error or without one, returns no error.
C2_DeleteNotFoundSucceeds ==
    (last.op = "Delete" /\ Len(last.calls) = 1 /\ last.calls[1].StatusCode = 404)
        => last.err = "nil"

\* The declared fields other than the secret hold their declared values, and
\* the computed fields the segments of the declared relay reference.
FieldsAsDeclared ==
    /\ \A f \in DeclaredFields \ {"send_key_value"} : d[f] = last.cfg[f]
    /\ d.namespace_name = ParseHybridConnectionID(last.cfg.relay_id).NamespaceName
    /\ d.relay_name = ParseHybridConnectionID(last.cfg.relay_id).Name

CreateUpdateSucceeded == IsCreateUpdate(last) /\ last.err = "nil"

\* C3 as claimed: after a successful CreateOrUpdate the fields are as declared
\* and send_key_value is the primary key the credential listing returned, or
\* unset (empty) when that lookup failed.
C3_SecretUnsetOnLookupFailure ==
    CreateUpdateSucceeded =>
        /\ FieldsAsDeclared
        /\ \A i \in ListKeysCalls(last) :
              d.send_key_value = IF last.calls[i].err THEN ""
                                 ELSE last.calls[i].PrimaryKey

\* C3 amended: after a successful CreateOrUpdate the fields are as declared,
\* exactly one credential listing was issued, and send_key_value is the
\* primary key it returned, or the declared send_key_value when it failed.
C3_FieldsAsDeclared ==
    CreateUpdateSucceeded =>
        /\ FieldsAsDeclared
        /\ Cardinality(ListKeysCalls(last)) = 1
        /\ \A i \in ListKeysCalls(last) :
              d.send_key_value = IF last.calls[i].err THEN last.cfg.send_key_value
                                 ELSE last.calls[i].PrimaryKey

\* C3 happens: an Update that changed the hostname succeeded while the
\* credential listing failed.
C3_Witness ==
    /\ last.op = "Update" /\ last.err = "nil"
    /\ \E i \in ListKeysCalls(last) : last.calls[i].err
    /\ d.hostname = "h2" /\ d.send_key_value = last.cfg.send_key_value
    /\ Lookup(remote, DeclaredKey(last.cfg)).props.Hostname = "h2"

\* C4: a Create with import detection enabled whose pre-check get finds a
\* binding under the declared key fails with ImportAsExists naming the
\* binding's ID, issues no upsert (the get is its only call), leaves the remote
\* store unchanged and sets no identifier.
C4_ImportSafety ==
    [][(/\ last'.op = "Create" /\ importEnabled
        /\ ParseHybridConnectionID(last'.cfg.relay_id).ok
        /\ Lookup(remote, DeclaredKey(last'.cfg)).present
        /\ Len(last'.calls) >= 1 /\ ~last'.calls[1].err)
        => /\ last'.err = "ImportAsExists"
           /\ last'.errId = HybridConnectionID(DeclaredKey(last'.cfg))
           /\ last'.calls[1].api = "Get"
           /\ CallKey(last'.calls[1]) = DeclaredKey(last'.cfg)
           /\ Len(last'.calls) = 1
           /\ UpsertCalls(last') = {}
           /\ remote' = remote
           /\ d'.id = EmptyId]_vars

\* C4 happens: a Create was refused because the binding exists.
C4_Witness ==
    /\ last.op = "Create" /\ importEnabled /\ last.err = "ImportAsExists"
    /\ last.errId # EmptyId /\ d.id = EmptyId
    /\ Lookup(remote, DeclaredKey(last.cfg)).present

CreateUpdateFailedEarly(l) ==
    l.err \in {"ErrParsingRelayID", "ErrCheckingPresence", "ImportAsExists",
               "ErrCreating"}

\* C5: a CreateOrUpdate that fails at the relay-reference parse, at the import
\* pre-check or at the upsert leaves the identifier as it was; an identifier
\* that changes is the ID a successful upsert of this operation returned.
C5_IdOnlyAfterUpsert ==
    [][IsCreateUpdate(last')
        => /\ CreateUpdateFailedEarly(last') => d'.id = d.id
           /\ d'.id # d.id =>
                 \E i \in UpsertCalls(last') :
                    /\ ~last'.calls[i].err /\ last'.calls[i].hasID
                    /\ d'.id = last'.calls[i].ID]_vars

\* C5 happens: an Update that moved the resource to another relay failed at
\* the upsert and kept its identifier.
C5_Witness ==
    /\ last.op = "Update" /\ last.err = "ErrCreating"
    /\ UpsertCalls(last) # {}
    /\ d.id # EmptyId /\ d.id # HybridConnectionID(DeclaredKey(last.cfg))

\* C6: a CreateOrUpdate whose relay reference does not parse returns the
\* parse error having issued no call; every call CreateOrUpdate issues to the
\* site-hosting service, its closing Read's get included, is keyed by the
\* namespace and relay name of the parsed reference.
C6_ParseBeforeCalls ==
    IsCreateUpdate(last) =>
        /\ ~ParseHybridConnectionID(last.cfg.relay_id).ok
              => last.err = "ErrParsingRelayID" /\ last.calls = <<>>
        /\ \A i \in 1..Len(last.calls) :
              last.calls[i].api \in {"Get", "CreateOrUpdate"} =>
                 /\ ParseHybridConnectionID(last.cfg.relay_id).ok
                 /\ CallKey(last.calls[i]) = DeclaredKey(last.cfg)

\* C6 happens: a Create declared a reference that is no hybrid connection and
\* returned the parse error without a call.
C6_Witness ==
    /\ last.op = "Create" /\ last.err = "ErrParsingRelayID" /\ last.calls = <<>>
    /\ last.cfg.relay_id \in RelayRefs
    /\ ~ParseHybridConnectionID(last.cfg.relay_id).ok

\* C7 as claimed: a Read whose get succeeds returns no error whatever the
\* credential listing does, with the non-secret fields as the remote binding
\* has them, and send_key_value written only by a successful listing.
C7_LookupFailureNonFatal ==
    [][(ReadGot(last') /\ ~last'.calls[1].err)
        => /\ last'.err = "nil"
           /\ LET props == Lookup(remote, CallKey(last'.calls[1])).props
              IN /\ d'.hostname = props.Hostname
                 /\ d'.port = props.Port
                 /\ d'.relay_id = props.RelayArmURI
                 /\ d'.service_bus_namespace = props.ServiceBusNamespace
                 /\ d'.service_bus_suffix = props.ServiceBusSuffix
                 /\ d'.send_key_name = props.SendKeyName
           /\ \A i \in ListKeysCalls(last') :
                 d'.send_key_value = IF last'.calls[i].err THEN d.send_key_value
                                     ELSE last'.calls[i].PrimaryKey]_vars

\* C8 as claimed: an Update that returns no error leaves the identifier, and so
\* the site, namespace and relay name it encodes, as it was, and no upsert of
\* it stores a binding under another key while the binding the identifier
\* names remains.
C8_UpdateKeepsKey ==
    [][(last'.op = "Update" /\ last'.err = "nil")
        => /\ d'.id = d.id
           /\ \A i \in UpsertCalls(last') :
                 (/\ ~last'.calls[i].err
                  /\ HybridConnectionID(CallKey(last'.calls[i])) # d.id)
                 => \E k \in Keys : /\ HybridConnectionID(k) = d.id
                                     /\ ~remote'[k].present]_vars

\* C9 as claimed: after a Delete that returned no error the binding its call
\* names does not exist.
C9_DeleteSuccessRemoves ==
    (last.op = "Delete" /\ last.err = "nil" /\ Len(last.calls) = 1)
        => ~Lookup(remote, CallKey(last.calls[1])).present

\* C10 as claimed: a Read whose get succeeds returns, with or without a
\* properties block in the response.
C10_ReadReturns ==
    (ReadGot(last) /\ ~last.calls[1].err) => last.err # "panic"

====
